---------------------------- MODULE Spec2Model ----------------------------
(***************************************************************************)
(* Ledgerly bill extraction-and-validation pipeline (backend/app.py).      *)
(*                                                                         *)
(* Several specifications share this module:                               *)
(*   SpecValidator  - validate_bill_data applied (repeatedly, in place) to *)
(*                    a record drawn from a bounded set of inputs;         *)
(*   Spec           - one /api/bills/upload request, step by step;         *)
(*   SpecVoice      - one /api/voice/process request, step by step;        *)
(*   SpecText       - _clean_json_text and parse_ai_response applied to a  *)
(*                    response text drawn from a bounded set;              *)
(*   SpecInsights   - one /api/insights/ask request, step by step;         *)
(*   SpecFallback   - _fallback_extract_from_ocr applied to an OCR text    *)
(*                    drawn from a bounded set.                            *)
(*                                                                         *)
(* Numbers.  Money amounts are integers (rupees).  Confidence is kept in   *)
(* hundredths (0.5 is 50), so the penalties 0.2, 0.15 and 0.1 are 20, 15   *)
(* and 10; the binary floating-point rounding of the Python floats (0.5 -  *)
(* 0.15 - 0.1 evaluates to 0.24999999999999997) is not modelled.           *)
(*                                                                         *)
(* Python values.  A dict field holds a tagged value: None (the key is     *)
(* missing or holds None; dict.get gives None for both), Num(x), or Str (a *)
(* non-empty, non-numeric string).  Obj is a JSON array or object where    *)
(* the schema has a scalar.  For "confidence" None stands for a missing    *)
(* key only.  "items" is ItemsNone or ItemsList(sequence).                 *)
(***************************************************************************)
EXTENDS Integers, Sequences, FiniteSets, TLC

VARIABLES
    \* ---- validator harness (SpecValidator) ----
    vBill,      \* the dict object the caller holds; validate_bill_data mutates it
    vOrig,      \* the value of that dict before the first call
    vHist,      \* the values returned by the successive calls
    \* ---- one bill upload request (Spec) ----
    pc,         \* position in api_upload_bill / run_gemini_structured
    req,        \* the request: login, file part, filename class
    env,        \* GEMINI_API_KEY configured or not
    ocr_text,   \* what pytesseract recognised, as the matches the patterns find
    derived,    \* "none" | "exists" | "deleted": the processed_<name> image
    extracted,  \* run_gemini_structured's local `extracted`
    ai,         \* what the AI engine answered: [first, verify], for comparison
    rgs_result, \* what run_gemini_structured returned ("pending" before)
    structured, \* api_upload_bill's local `structured`
    calls,      \* log of the collaborator calls made by this request
    bills_row,  \* the request's row of table bills
    entries,    \* rows inserted into table entries by this request
    response,   \* the HTTP response, "pending" before
    \* ---- one voice request (SpecVoice; it also uses pc, req, env, calls,
    \*      entries and response) ----
    voice,      \* api_process_voice's locals: extracted, entry_type, amount
    \* ---- response-text harness (SpecText) ----
    blob,       \* an AI response text and what the two normalizers make of it
    \* ---- one insights request (SpecInsights; it also uses pc, req, env,
    \*      calls and response) ----
    insight,    \* api_insights_ask's locals: the generated and the final sql
    \* ---- text-pattern extractor harness (SpecFallback) ----
    fb          \* an OCR text and what _fallback_extract_from_ocr returns for it

vvars == <<vBill, vOrig, vHist>>
pvars == <<pc, req, env, ocr_text, derived, extracted, ai, rgs_result,
           structured, calls, bills_row, entries, response>>
\* what only api_upload_bill uses
uvars == <<ocr_text, derived, extracted, ai, rgs_result, structured, bills_row>>
\* what only the other specifications use
hvars == <<voice, blob, insight, fb>>
vars == <<vvars, pvars, hvars>>

----------------------------------------------------------------------------
(* Python values *)

None == [t |-> "none", v |-> 0]
Num(x) == [t |-> "num", v |-> x]
Str == [t |-> "str", v |-> 0]
Obj == [t |-> "obj", v |-> 0]
IsNone(x) == x.t = "none"
IsNum(x) == x.t = "num"

ItemsNone == [t |-> "none", v |-> <<>>]
ItemsList(s) == [t |-> "list", v |-> s]

\* Python truthiness of a field value: None, 0 and [] are falsy.
Truthy(x) ==
    CASE x.t = "none" -> FALSE
      [] x.t = "num" -> x.v # 0
      [] x.t = "str" -> TRUE
      [] x.t = "obj" -> TRUE
      [] x.t = "list" -> Len(x.v) > 0

Abs(x) == IF x < 0 THEN -x ELSE x
Max(a, b) == IF a >= b THEN a ELSE b
Min(a, b) == IF a <= b THEN a ELSE b

----------------------------------------------------------------------------
(* validate_bill_data *)

DefaultConfidence == 50
MinPlausibleTotal == 10
MaxGstPercent == 28
Rule1Penalty == 20
Rule2Penalty == 15
Rule3Penalty == 10
Rule4Penalty == 15
Rule5Penalty == 10

\* Rule 1: total is not None and total < 10
Rule1Fires(bill) ==
    IsNum(bill.total_amount) /\ bill.total_amount.v < MinPlausibleTotal

\* Rule 2: gst is not None and total is not None and gst > total
Rule2Fires(bill) ==
    /\ IsNum(bill.gst_amount) /\ IsNum(bill.total_amount)
    /\ bill.gst_amount.v > bill.total_amount.v

\* Rule 3: gst_pct is not None and (gst_pct < 0 or gst_pct > 28)
Rule3Fires(bill) ==
    /\ IsNum(bill.gst_percentage)
    /\ (bill.gst_percentage.v < 0 \/ bill.gst_percentage.v > MaxGstPercent)

\* Mutant of Rule4Fires: rule 4 reads gst_amount from the dict after rule 2
\* nulled it, so the two rules never fire together.
Rule4Fires_AfterRule2(bill) ==
    /\ IsNum(bill.subtotal) /\ IsNum(bill.gst_amount) /\ IsNum(bill.total_amount)
    /\ ~(bill.gst_amount.v > bill.total_amount.v)
    /\ 10 * Abs(bill.subtotal.v + bill.gst_amount.v - bill.total_amount.v)
          > bill.total_amount.v

\* Rule 4: the locals total, gst and subtotal were read before rule 2 wrote
\* None into the dict, so rule 4 still sees the original gst.
\* abs(subtotal + gst - total) > total * 0.1, in integers.
Rule4Fires(bill) ==
    /\ IsNum(bill.subtotal) /\ IsNum(bill.gst_amount) /\ IsNum(bill.total_amount)
    /\ 10 * Abs(bill.subtotal.v + bill.gst_amount.v - bill.total_amount.v)
          > bill.total_amount.v

\* Mutant of Rule5Fires: `items == []` instead of `not items` (a missing key
\* is then not counted as empty).
Rule5Fires_EmptyListOnly(bill) == bill.items.t = "list" /\ Len(bill.items.v) = 0

\* Rule 5: items = bill.get("items", []); not items
Rule5Fires(bill) == ~Truthy(bill.items)

\* Mutant of Clamp: the lower bound forgotten, min(1.0, confidence).
Clamp_NoFloor(c) == Min(100, c)

\* max(0.0, min(1.0, confidence))
Clamp(c) == Max(0, Min(100, c))

\* `total < 10` with a str total raises TypeError (line 201).
ValidateRaises(bill) == bill.total_amount.t = "str"

PenaltySum(bill) ==
    (IF Rule1Fires(bill) THEN Rule1Penalty ELSE 0)
  + (IF Rule2Fires(bill) THEN Rule2Penalty ELSE 0)
  + (IF Rule3Fires(bill) THEN Rule3Penalty ELSE 0)
  + (IF Rule4Fires(bill) THEN Rule4Penalty ELSE 0)
  + (IF Rule5Fires(bill) THEN Rule5Penalty ELSE 0)

BaseConfidence(bill) ==
    IF IsNone(bill.confidence) THEN DefaultConfidence ELSE bill.confidence.v

\* Mutant of validate_bill_data: rule 2 charges its penalty but leaves
\* gst_amount in the dict.
validate_bill_data_KeepGst(bill) ==
    [bill EXCEPT
        !.gst_percentage = IF Rule3Fires(bill) THEN None ELSE @,
        !.confidence = Num(Clamp(BaseConfidence(bill) - PenaltySum(bill)))]

\* The dict as validate_bill_data leaves and returns it (bill is not None and
\* no comparison raises).
validate_bill_data(bill) ==
    [bill EXCEPT
        !.gst_amount = IF Rule2Fires(bill) THEN None ELSE @,
        !.gst_percentage = IF Rule3Fires(bill) THEN None ELSE @,
        !.confidence = Num(Clamp(BaseConfidence(bill) - PenaltySum(bill)))]


----------------------------------------------------------------------------
(* The records of the model: the keys of a bill dict that the validator and
   the orchestrator read. *)

MaxItems == 2
MaxConfOver == 2
MaxValidations == 2

\* A line item as the model (AI) returns it; n only tells items apart.
AIItem(n) ==
    [description |-> "item", hsn_code |-> None, quantity |-> Num(1),
     rate |-> Num(n), amount |-> Num(n)]

ItemSeq(k) == [i \in 1..k |-> AIItem(i)]

Bill(total, gst, subtotal, pct, items, conf) ==
    [total_amount |-> total, gst_amount |-> gst, subtotal |-> subtotal,
     gst_percentage |-> pct, cgst_rate |-> None, cgst_amount |-> None,
     sgst_rate |-> None, sgst_amount |-> None, igst_rate |-> None,
     igst_amount |-> None, vendor_name |-> None, vendor_gstin |-> None,
     bill_number |-> None, bill_date |-> None, items |-> items,
     confidence |-> conf]

\* The empty dict {}: every dict.get gives None.
EmptyDict == Bill(None, None, None, None, ItemsNone, None)

\* Inputs of the validator harness: every combination of present/absent
\* fields around the thresholds of the five rules, and starting confidences
\* from below 0 to above 1.
VTotals == {None} \cup {Num(x) : x \in {-5, 0, 5, 10, 100}}
VGsts == {None} \cup {Num(x) : x \in {0, 18, 150}}
VSubtotals == {None} \cup {Num(x) : x \in {82, 92, 95}}
VGstPcts == {None} \cup {Num(x) : x \in {-1, 0, 18, 28, 29}}
VItems == {ItemsNone} \cup {ItemsList(ItemSeq(k)) : k \in 0..MaxItems}
VConfs == {None} \cup {Num(5 * k) : k \in (0 - MaxConfOver)..(20 + MaxConfOver)}

\* Records shaped by the extraction schema (EXTRACTION_PROMPT): the tax is
\* given by component, cgst_rate and cgst_amount, and there is no gst_amount
\* and no gst_percentage key.
VSchemaBills ==
    {[Bill(Num(100), None, s, None, i, None)
        EXCEPT !.cgst_amount = a, !.cgst_rate = r] :
        s \in {None, Num(82)}, a \in {None, Num(9), Num(150)},
        r \in {None, Num(9), Num(29)},
        i \in {ItemsList(<<>>), ItemsList(ItemSeq(1))}}

VBills ==
    {Bill(t, g, s, p, i, c) :
        t \in VTotals, g \in VGsts, s \in VSubtotals, p \in VGstPcts,
        i \in VItems, c \in VConfs}
      \cup VSchemaBills

----------------------------------------------------------------------------
(* SpecValidator: a caller holds a dict and calls validate_bill_data on it,
   then again on what it returned. *)

PipelineOff ==
    /\ pc = "off"
    /\ req = <<>>
    /\ env = <<>>
    /\ ocr_text = <<>>
    /\ derived = "none"
    /\ extracted = <<>>
    /\ ai = <<>>
    /\ rgs_result = <<>>
    /\ structured = <<>>
    /\ calls = <<>>
    /\ bills_row = <<>>
    /\ entries = <<>>
    /\ response = <<>>

\* The variables of the other specifications, which this one leaves alone.
VoiceOff == voice = <<>>
TextOff == blob = <<>>
InsightsOff == insight = <<>>
FallbackOff == fb = <<>>
HarnessOff == VoiceOff /\ TextOff /\ InsightsOff /\ FallbackOff

InitValidator ==
    /\ vBill \in VBills
    /\ vOrig = vBill
    /\ vHist = <<>>
    /\ PipelineOff
    /\ HarnessOff

\* validated = validate_bill_data(bill): the dict is updated in place and the
\* same object is returned.
ValidateCall ==
    /\ Len(vHist) < MaxValidations
    /\ vBill' = validate_bill_data(vBill)
    /\ vHist' = Append(vHist, vBill')
    /\ UNCHANGED <<vOrig, pvars, hvars>>

NextValidator == ValidateCall

SpecValidator == InitValidator /\ [][NextValidator]_vars

----------------------------------------------------------------------------
(* _fallback_extract_from_ocr.  The recognised text is modelled by what the
   function's patterns find in it: the strings captured by the amount
   patterns (Num(x) for a capture float() parses to x, Str for one it cannot
   parse, such as ","), whether the GSTIN, date and vendor-name scans find
   something, and the captures of the CGST/SGST/IGST and subtotal patterns
   (None when the pattern does not match). *)

FallbackBaseConfidence == 30
FallbackAmountBonus == 25
FallbackGstinBonus == 15
FallbackDateBonus == 10
FallbackVendorBonus == 10
FallbackGstBonus == 10

OcrText(amounts, gstin, date, vendor, cgst, subtotal) ==
    [amount_matches |-> amounts, gstin |-> gstin, date |-> date,
     vendor |-> vendor, cgst |-> cgst, sgst |-> None, igst |-> None,
     subtotal |-> subtotal]

SetMax(S) == CHOOSE x \in S : \A y \in S : y <= x

\* Mutant of ParsedOrNone: the try/except around float() forgotten, the
\* capture that does not parse is not turned into None.
ParsedOrNone_NoExcept(m) == m

\* float(match.replace(",", "")) inside try/except ValueError: a capture
\* that does not parse leaves the field None.
ParsedOrNone(m) == IF IsNum(m) THEN m ELSE None

\* Mutant of DetectedAmount: the test `if amt > 0` forgotten, so a capture of
\* 0 is a candidate too.
DetectedAmount_KeepNonPositive(text) ==
    LET all_amounts == {m.v : m \in {x \in text.amount_matches : IsNum(x)}}
    IN  IF all_amounts = {} THEN None ELSE Num(SetMax(all_amounts))

\* all_amounts: the parseable captures with amt > 0; max() of them, or None.
DetectedAmount(text) ==
    LET all_amounts == {m.v : m \in {x \in text.amount_matches : IsNum(x) /\ x.v > 0}}
    IN  IF all_amounts = {} THEN None ELSE Num(SetMax(all_amounts))

FallbackConfidence(text) ==
    LET detected == DetectedAmount(text)
    IN  FallbackBaseConfidence
      + (IF Truthy(detected) /\ detected.v > 10 THEN FallbackAmountBonus ELSE 0)
      + (IF text.gstin THEN FallbackGstinBonus ELSE 0)
      + (IF text.date THEN FallbackDateBonus ELSE 0)
      + (IF text.vendor THEN FallbackVendorBonus ELSE 0)
      + (IF \/ Truthy(ParsedOrNone(text.cgst))
            \/ Truthy(ParsedOrNone(text.sgst))
            \/ Truthy(ParsedOrNone(text.igst))
         THEN FallbackGstBonus ELSE 0)

\* The returned dict has no gst_amount and no gst_percentage key.  No text of
\* the model carries a bill number (lines 285-294 find none).
_fallback_extract_from_ocr(text) ==
    [total_amount |-> DetectedAmount(text),
     gst_amount |-> None,
     subtotal |-> ParsedOrNone(text.subtotal),
     gst_percentage |-> None,
     cgst_rate |-> None,
     cgst_amount |-> ParsedOrNone(text.cgst),
     sgst_rate |-> None,
     sgst_amount |-> ParsedOrNone(text.sgst),
     igst_rate |-> None,
     igst_amount |-> ParsedOrNone(text.igst),
     vendor_name |-> IF text.vendor THEN Str ELSE None,
     vendor_gstin |-> IF text.gstin THEN Str ELSE None,
     bill_number |-> None,
     bill_date |-> IF text.date THEN Str ELSE None,
     items |-> ItemsList(<<>>),
     confidence |-> Num(Min(100, FallbackConfidence(text)))]

\* The texts the OCR engine returns in the upload model: an empty text;
\* "Grand Total: 500" next to an unrelated 42; a bill of 5 rupees with a
\* vendor line; a text whose only captures do not parse or are zero; and a
\* full bill (vendor, GSTIN, date, CGST, subtotal, total).
UploadOcrTexts ==
    { OcrText({}, FALSE, FALSE, FALSE, None, None),
      OcrText({Num(500), Num(42)}, FALSE, FALSE, FALSE, None, None),
      OcrText({Num(5)}, FALSE, FALSE, TRUE, None, None),
      OcrText({Str, Num(0)}, TRUE, FALSE, FALSE, None, None),
      OcrText({Num(500), Num(410), Num(45)}, TRUE, TRUE, TRUE, Num(45), Num(410)) }

----------------------------------------------------------------------------
(* POST /api/bills/upload: api_upload_bill and run_gemini_structured, one
   request from arrival to response.  The collaborators (session, file
   store, database, pdf2image, Tesseract, OpenCV, PIL, Gemini) answer
   nondeterministically; every call made to them is appended to `calls`. *)

MaxUsers == 1

ALLOWED_EXTENSIONS == {"png", "jpg", "jpeg", "gif", "webp", "bmp", "tiff", "pdf"}

\* str.lower() on the extensions used below.
Lower(ext) ==
    CASE ext = "PDF" -> "pdf"
      [] ext = "PNG" -> "png"
      [] OTHER -> ext

\* file.filename: empty, or a name with or without a dot and what follows
\* the last dot.
Filename(empty, dot, ext) == [empty |-> empty, dot |-> dot, ext |-> ext]

Filenames ==
    { Filename(TRUE, FALSE, ""), Filename(FALSE, FALSE, ""),
      Filename(FALSE, TRUE, "exe"), Filename(FALSE, TRUE, "png"),
      Filename(FALSE, TRUE, "PNG"), Filename(FALSE, TRUE, "pdf") }

\* Mutant of allowed_file: the extension is not looked at.
allowed_file_DotOnly(filename) == filename.dot

\* "." in filename and filename.rsplit(".", 1)[1].lower() in ALLOWED_EXTENSIONS
allowed_file(filename) == filename.dot /\ Lower(filename.ext) \in ALLOWED_EXTENSIONS

\* user 0: no session (require_login gives None); has_file: "file" in
\* request.files.
Requests ==
    {[user |-> u, has_file |-> h, filename |-> f] :
        u \in 0..MaxUsers, h \in BOOLEAN, f \in Filenames}

\* The answers of the AI engine to one generate_content call, after
\* _clean_json_text and json.loads: the call raises; the text is not JSON;
\* the JSON is not an object; the JSON is an object.
\* Two records carry a string where the prompt asks for a number,
\* "cgst_amount": "n/a", and two an array where it asks for a string,
\* "vendor_gstin": ["27ABCDE1234F1Z5"].
AIRecords ==
    {Bill(t, g, None, None, i, None) :
        t \in {None, Num(0), Num(-5), Num(250), Str},
        g \in {None, Num(300)},
        i \in VItems}
      \cup {[Bill(t, None, None, None, ItemsList(<<>>), None)
                EXCEPT !.cgst_amount = Str] : t \in {None, Num(250)}}
      \cup {[Bill(Num(250), None, None, None, i, None)
                EXCEPT !.vendor_gstin = Obj] :
                i \in {ItemsList(<<>>), ItemsList(ItemSeq(1))}}

AIOutcome(kind, rec) == [kind |-> kind, rec |-> rec]
NotCalled == AIOutcome("not_called", EmptyDict)

AIOutcomes ==
    {AIOutcome(k, EmptyDict) : k \in {"gen_error", "unparseable", "nonmap"}}
        \cup {AIOutcome("map", r) : r \in AIRecords}

\* What one generate_content call and the parsing of its text add to the log.
AICalls(name, outcome) ==
    IF outcome.kind = "gen_error" THEN <<name>> ELSE <<name, "clean_json">>

ResultPending == [t |-> "pending", v |-> EmptyDict]
ResultNone == [t |-> "none", v |-> EmptyDict]
ResultDict(d) == [t |-> "dict", v |-> d]

NoRow == [status |-> "none", total_amount |-> None, gst_amount |-> None,
          items |-> ItemsNone]
ProcessingRow == [NoRow EXCEPT !.status = "processing"]

Pending == [t |-> "pending", error |-> "", message |-> FALSE, http |-> 0,
            bill |-> EmptyDict]
ErrorResponse(code, message, http) ==
    [t |-> "error", error |-> code, message |-> message, http |-> http,
     bill |-> EmptyDict]
OkResponse(bill) ==
    [t |-> "ok", error |-> "", message |-> FALSE, http |-> 200, bill |-> bill]

NoText == OcrText({}, FALSE, FALSE, FALSE, None, None)

ValidatorOff == vBill = EmptyDict /\ vOrig = EmptyDict /\ vHist = <<>>

Init ==
    /\ pc = "received"
    /\ req \in Requests
    /\ env \in [api_key : BOOLEAN]
    /\ ocr_text = NoText
    /\ derived = "none"
    /\ extracted = EmptyDict
    /\ ai = [first |-> NotCalled, verify |-> NotCalled]
    /\ rgs_result = ResultPending
    /\ structured = EmptyDict
    /\ calls = <<>>
    /\ bills_row = NoRow
    /\ entries = <<>>
    /\ response = Pending
    /\ ValidatorOff
    /\ HarnessOff

\* return jsonify({...}), status
Respond(r) == response' = r /\ pc' = "responded"

\* Lines 982-1014: login, file part, filename and extension checks; then the
\* file is saved and the bills row inserted with status 'processing'.
Receive ==
    /\ pc = "received"
    /\ IF req.user = 0
         THEN Respond(ErrorResponse("unauthorized", FALSE, 401))
                /\ UNCHANGED <<calls, bills_row>>
       ELSE IF ~req.has_file
         THEN Respond(ErrorResponse("no_file", FALSE, 400))
                /\ UNCHANGED <<calls, bills_row>>
       ELSE IF req.filename.empty
         THEN Respond(ErrorResponse("empty_filename", FALSE, 400))
                /\ UNCHANGED <<calls, bills_row>>
       ELSE IF ~allowed_file(req.filename)
         THEN Respond(ErrorResponse("invalid_file_type", TRUE, 400))
                /\ UNCHANGED <<calls, bills_row>>
       ELSE /\ calls' = calls \o <<"save_file", "insert_bill">>
            /\ bills_row' = ProcessingRow
            /\ pc' = "stored"
            /\ UNCHANGED response
    /\ UNCHANGED <<req, env, ocr_text, derived, extracted, ai, rgs_result,
                   structured, entries, vvars, hvars>>

\* Lines 1016-1027: a PDF is rasterised by pdf_to_image, which returns the
\* PDF path itself when the conversion fails.
ConvertPdf ==
    /\ pc = "stored"
    /\ IF Lower(req.filename.ext) = "pdf"
         THEN \E converted \in BOOLEAN :
                /\ calls' = Append(calls, "pdf_to_image")
                /\ IF converted
                     THEN pc' = "image_ready" /\ UNCHANGED response
                     ELSE Respond(ErrorResponse("pdf_conversion_failed", TRUE, 500))
         ELSE pc' = "image_ready" /\ UNCHANGED <<calls, response>>
    /\ UNCHANGED <<req, env, ocr_text, derived, extracted, ai, rgs_result,
                   structured, bills_row, entries, vvars, hvars>>

\* Lines 1029-1045: Tesseract reads the uploaded (or rasterised) image.
RunOcr ==
    /\ pc = "image_ready"
    /\ calls' = Append(calls, "ocr")
    /\ \/ /\ ocr_text' \in UploadOcrTexts
          /\ pc' = "ocr_done"
          /\ UNCHANGED response
       \/ /\ Respond(ErrorResponse("tesseract_missing", TRUE, 500))
          /\ UNCHANGED ocr_text
       \/ /\ Respond(ErrorResponse("ocr_failed", TRUE, 500))
          /\ UNCHANGED ocr_text
    /\ UNCHANGED <<req, env, derived, extracted, ai, rgs_result, structured,
                   bills_row, entries, vvars, hvars>>

\* Mutant of AIConfigured: the `if not GEMINI_API_KEY` guard is missing.
AIConfigured_Always == TRUE

\* Line 458: GEMINI_API_KEY is a non-empty string.
AIConfigured == env.api_key

\* Lines 458-466, the start of run_gemini_structured.  Without a key the
\* function returns the pattern extraction at once.  With a key the image is
\* preprocessed (a processed_<name> file is written, or the original path
\* comes back) and opened; an exception there is caught at line 506.
EnterPipeline ==
    /\ pc = "ocr_done"
    /\ IF ~AIConfigured
         THEN /\ rgs_result' = ResultDict(_fallback_extract_from_ocr(ocr_text))
              /\ calls' = Append(calls, "fallback")
              /\ pc' = "rgs_returned"
              /\ UNCHANGED derived
         ELSE \E written \in BOOLEAN, opened \in BOOLEAN :
              /\ derived' = IF written THEN "exists" ELSE "none"
              /\ calls' = calls \o <<"preprocess", "image_open">>
              /\ IF opened
                   THEN pc' = "first_pass" /\ UNCHANGED rgs_result
                   ELSE pc' = "rgs_returned" /\ rgs_result' = ResultNone
    /\ UNCHANGED <<req, env, ocr_text, extracted, ai, structured, bills_row,
                   entries, response, vvars, hvars>>

\* Mutant of FirstPassProceeds: the isinstance check of line 477 is missing.
FirstPassProceeds_NoTypeCheck(outcome) == outcome.kind \in {"map", "nonmap"}

\* Lines 473-478: the pipeline goes on only if generate_content, .text and
\* json.loads did not raise and the parsed value is a dict.
FirstPassProceeds(outcome) == outcome.kind = "map"

\* Lines 468-478: first extraction pass.
FirstPass ==
    /\ pc = "first_pass"
    /\ \E outcome \in AIOutcomes :
        /\ ai' = [ai EXCEPT !.first = outcome]
        /\ calls' = calls \o AICalls("generate_first", outcome)
        /\ IF FirstPassProceeds(outcome)
             THEN /\ extracted' = outcome.rec
                  /\ pc' = "verify"
                  /\ UNCHANGED rgs_result
             ELSE /\ rgs_result' = ResultNone
                  /\ pc' = "rgs_returned"
                  /\ UNCHANGED extracted
    /\ UNCHANGED <<req, env, ocr_text, derived, structured, bills_row, entries,
                   response, vvars, hvars>>

\* Mutant of VerifiedRecord: any parsed value replaces the extraction (the
\* isinstance check of line 489 is missing).
VerifiedRecord_NoTypeCheck(first, outcome) ==
    IF outcome.kind \in {"map", "nonmap"} THEN outcome.rec ELSE first

\* Lines 489-492: only a parsed dict replaces the first-pass extraction; any
\* exception of the second call is swallowed.
VerifiedRecord(first, outcome) ==
    IF outcome.kind = "map" THEN outcome.rec ELSE first

\* Lines 480-492: verification pass, the second generate_content call.
Verify ==
    /\ pc = "verify"
    /\ \E outcome \in AIOutcomes :
        /\ ai' = [ai EXCEPT !.verify = outcome]
        /\ calls' = calls \o AICalls("generate_verify", outcome)
        /\ extracted' = VerifiedRecord(extracted, outcome)
    /\ pc' = "validate"
    /\ UNCHANGED <<req, env, ocr_text, derived, rgs_result, structured,
                   bills_row, entries, response, vvars, hvars>>

\* Lines 494-508: validation, then best-effort deletion of the processed
\* image, then return.  A TypeError in validate_bill_data is caught at line
\* 506 (return None) and skips the deletion.
ValidateAndCleanup ==
    /\ pc = "validate"
    /\ IF ValidateRaises(extracted)
         THEN /\ calls' = Append(calls, "validate")
              /\ rgs_result' = ResultNone
              /\ UNCHANGED <<derived, extracted>>
         ELSE /\ extracted' = validate_bill_data(extracted)
              /\ rgs_result' = ResultDict(extracted')
              /\ IF derived = "exists"
                   THEN /\ calls' = calls \o <<"validate", "unlink">>
                        /\ \E removed \in BOOLEAN :
                             derived' = IF removed THEN "deleted" ELSE "exists"
                   ELSE /\ calls' = Append(calls, "validate")
                        /\ UNCHANGED derived
    /\ pc' = "rgs_returned"
    /\ UNCHANGED <<req, env, ocr_text, ai, structured, bills_row, entries,
                   response, vvars, hvars>>

\* Mutant of NeedsFallback: the `and not structured.get("items")` part is
\* missing.
NeedsFallback_TotalOnly(s) ==
    s = EmptyDict \/ IsNone(s.total_amount) \/ s.total_amount = Num(0)

\* Line 1051: not structured or (structured.get("total_amount") in (None, 0)
\* and not structured.get("items"))
NeedsFallback(s) ==
    \/ s = EmptyDict
    \/ /\ (IsNone(s.total_amount) \/ s.total_amount = Num(0))
       /\ ~Truthy(s.items)

\* Mutant of Orchestrate: `or {}` is missing, so a None result raises
\* AttributeError at structured.get and the request ends at line 1149.
Orchestrate_NoOrEmpty ==
    /\ pc = "rgs_returned"
    /\ IF rgs_result.t # "dict"
         THEN /\ Respond(ErrorResponse("upload_failed", TRUE, 500))
              /\ UNCHANGED <<structured, calls>>
         ELSE /\ structured' = rgs_result.v
              /\ pc' = "extracted"
              /\ UNCHANGED <<calls, response>>
    /\ UNCHANGED <<req, env, ocr_text, derived, extracted, ai, rgs_result,
                   bills_row, entries, vvars, hvars>>

\* Lines 1048-1052: structured = run_gemini_structured(...) or {}; a missing
\* or low-value result is replaced by the pattern extraction.
Orchestrate ==
    /\ pc = "rgs_returned"
    /\ LET s == IF rgs_result.t = "dict" THEN rgs_result.v ELSE EmptyDict
       IN  IF NeedsFallback(s)
             THEN /\ structured' = _fallback_extract_from_ocr(ocr_text)
                  /\ calls' = Append(calls, "fallback")
             ELSE /\ structured' = s
                  /\ UNCHANGED calls
    /\ pc' = "extracted"
    /\ UNCHANGED <<req, env, ocr_text, derived, extracted, ai, rgs_result,
                   bills_row, entries, response, vvars, hvars>>

\* Lines 1058-1064: the synthesized line item.
InferredItem(total_val) ==
    [description |-> "Inferred item", hsn_code |-> None, quantity |-> Num(1),
     rate |-> total_val, amount |-> total_val]

\* Mutant of BackfillItems: the `if total_val` test is missing.
BackfillItems_NoTotalTest(s) ==
    IF ~Truthy(s.items)
      THEN [s EXCEPT !.items = ItemsList(<<InferredItem(s.total_amount)>>)]
      ELSE s

\* Lines 1055-1064: items in (None, [], ()); total_val is total_amount or
\* detected_amount, and no record of the pipeline has a detected_amount key.
BackfillItems(s) ==
    IF ~Truthy(s.items)
      THEN LET total_val == IF Truthy(s.total_amount) THEN s.total_amount ELSE None
           IN  IF Truthy(total_val)
                 THEN [s EXCEPT !.items = ItemsList(<<InferredItem(total_val)>>)]
                 ELSE s
      ELSE s

\* Lines 1054-1064.
Backfill ==
    /\ pc = "extracted"
    /\ structured' = BackfillItems(structured)
    /\ pc' = "backfilled"
    /\ UNCHANGED <<req, env, ocr_text, derived, extracted, ai, rgs_result,
                   calls, bills_row, entries, response, vvars, hvars>>

\* (x or 0)
OrZero(x) == IF Truthy(x) THEN x.v ELSE 0

\* Line 1075: (cgst_amount or 0) + (sgst_amount or 0) + (igst_amount or 0)
\* raises TypeError when a string is added to a number.
PersistRaises(s) ==
    LET parts == <<s.cgst_amount, s.sgst_amount, s.igst_amount>>
    IN  /\ \E i \in 1..3 : parts[i].t = "str"
        /\ \E i \in 1..3 : parts[i].t # "str"

\* Lines 1112-1124: sqlite3 cannot bind a list or dict parameter; the INSERT
\* binds vendor_gstin and bill_number, which the UPDATE before it does not.
InsertRaises(s) == s.vendor_gstin.t = "obj" \/ s.bill_number.t = "obj"

\* Mutant of LedgerWanted: the `> 0` comparison is missing.
LedgerWanted_TruthyOnly(total_amount) == Truthy(total_amount)

\* Line 1110: if total_amount and total_amount > 0
LedgerWanted(total_amount) == Truthy(total_amount) /\ total_amount.v > 0

\* Lines 1066-1149: the bills row is updated to 'done'; an entry is inserted
\* when total_amount is truthy and > 0; the response carries the record.  An
\* exception on the way is caught at line 1144 and answered with
\* upload_failed.  The connection commits every statement on its own
\* (isolation_level=None, db.py line 169): an exception before the UPDATE
\* leaves the bills row as it was, one raised by the INSERT leaves it 'done'.
Persist ==
    /\ pc = "backfilled"
    /\ IF PersistRaises(structured)
         THEN /\ Respond(ErrorResponse("upload_failed", TRUE, 500))
              /\ UNCHANGED <<bills_row, entries, calls>>
         ELSE LET total_amount == structured.total_amount
                  gst_amount == OrZero(structured.cgst_amount)
                                  + OrZero(structured.sgst_amount)
                                  + OrZero(structured.igst_amount)
                  ledger == LedgerWanted(total_amount)
              IN  /\ bills_row' = [status |-> "done",
                                   total_amount |-> total_amount,
                                   gst_amount |-> Num(gst_amount),
                                   items |-> structured.items]
                  /\ entries' = IF ledger /\ ~InsertRaises(structured)
                                  THEN <<[user_id |-> req.user,
                                          entry_type |-> "expense",
                                          amount |-> total_amount.v,
                                          source |-> "bill_upload"]>>
                                  ELSE <<>>
                  /\ calls' = calls \o (IF ledger
                                          THEN <<"update_bill", "insert_entry">>
                                          ELSE <<"update_bill">>)
                  /\ IF ledger /\ InsertRaises(structured)
                       THEN Respond(ErrorResponse("upload_failed", TRUE, 500))
                       ELSE Respond(OkResponse(structured))
    /\ UNCHANGED <<req, env, ocr_text, derived, extracted, ai, rgs_result,
                   structured, vvars, hvars>>

Next ==
    \/ Receive
    \/ ConvertPdf
    \/ RunOcr
    \/ EnterPipeline
    \/ FirstPass
    \/ Verify
    \/ ValidateAndCleanup
    \/ Orchestrate
    \/ Backfill
    \/ Persist

Spec == Init /\ [][Next]_vars

----------------------------------------------------------------------------
(* POST /api/voice/process: api_process_voice and extract_voice_data_simple,
   one request from arrival to response.  A transcript is the sequence of
   its whitespace-separated words; the words below stand for the classes the
   handler's patterns tell apart: numbers, a currency word (rupaye, rupees,
   rs), a postposition (ka, ke, ki, mein, me), an income keyword (becha,
   sold, received, ...), any other word, and a lone comma, which
   [\d,]+\.?\d* matches and float() rejects. *)

MaxWords == 3

Numbers == {"0", "5", "500"}
Words == Numbers \cup {"rupaye", "ka", "becha", "chawal", ","}

\* float(amount_str.replace(",", ""))
NumberValue(w) ==
    CASE w = "5" -> 5
      [] w = "500" -> 500
      [] OTHER -> 0

Transcripts == UNION {[1..n -> Words] : n \in 0..MaxWords}

\* re.search of "<a word of A>\s*<a word of B>": the position of the leftmost
\* match, 0 when there is none.
FirstPair(t, A, B) ==
    LET I == {i \in 1..(Len(t) - 1) : t[i] \in A /\ t[i + 1] \in B}
    IN  IF I = {} THEN 0 ELSE CHOOSE i \in I : \A j \in I : i <= j

\* Lines 394-408: the first of the three currency patterns that matches
\* gives the amount.
CurrencyAmount(t) ==
    LET p1 == FirstPair(t, Numbers, {"rupaye"})
        p2 == FirstPair(t, {"rupaye"}, Numbers)
        p3 == FirstPair(t, Numbers, {"ka"})
    IN  IF p1 # 0 THEN NumberValue(t[p1])
        ELSE IF p2 # 0 THEN NumberValue(t[p2 + 1])
        ELSE IF p3 # 0 THEN NumberValue(t[p3])
        ELSE 0

\* Lines 411-416: max of all numbers of the transcript, 0 without any.
LargestNumber(t) ==
    LET N == {NumberValue(t[i]) : i \in {j \in 1..Len(t) : t[j] \in Numbers}}
    IN  IF N = {} THEN 0 ELSE CHOOSE n \in N : \A m \in N : m <= n

\* The dicts of the voice pipeline: entry_type, amount, items (a missing
\* "amount" key reads as 0 at line 786 and is Num(0) here).
VoiceRecord(entry_type, amount, items) ==
    [entry_type |-> entry_type, amount |-> amount, items |-> items]

extract_voice_data_simple(transcript) ==
    LET currency == CurrencyAmount(transcript)
        amount == IF currency = 0 THEN LargestNumber(transcript) ELSE currency
        entry_type == IF \E i \in 1..Len(transcript) : transcript[i] = "becha"
                        THEN "income" ELSE "expense"
    IN  VoiceRecord(entry_type, Num(amount), ItemsList(<<>>))

\* Lines 789-795: re.search(r"([\d,]+\.?\d*)", transcript) and float() in
\* try/except ValueError; the amount stays as it was without a match or
\* when the match is a lone comma.
FirstNumberOr(transcript, amount) ==
    LET I == {i \in 1..Len(transcript) : transcript[i] \in Numbers \cup {","}}
        first == CHOOSE i \in I : \A j \in I : i <= j
    IN  IF I = {} THEN amount
        ELSE IF transcript[first] = "," THEN amount
        ELSE Num(NumberValue(transcript[first]))

VoiceRequests == [user : 0..MaxUsers, transcript : Transcripts]

VoiceItem(price) == [name |-> "chawal", price |-> price]

\* The JSON objects the AI engine may answer with.  The last one holds a
\* string where a price is expected.
VoiceAIRecords ==
    {VoiceRecord(e, a, ItemsList(<<>>)) :
        e \in {"income", "expense", "transfer"},
        a \in {None, Num(0), Num(-5), Num(300), Str}}
      \cup {VoiceRecord("income", Num(300), ItemsList(<<VoiceItem(p)>>)) :
              p \in {Num(100), Str}}

\* The answers of the AI engine after _clean_json_text and json.loads: the
\* call raises; the text is not JSON; the JSON is a falsy value ([], "", 0,
\* null, {}); the JSON is a non-empty list, string or number; the JSON is a
\* non-empty object.
VoiceAIOutcomes ==
    {AIOutcome(k, VoiceRecord("", None, ItemsNone)) :
        k \in {"gen_error", "unparseable", "falsy", "nonmap"}}
      \cup {AIOutcome("map", r) : r \in VoiceAIRecords}

VoiceNotCalled == AIOutcome("not_called", VoiceRecord("", None, ItemsNone))

\* The local `extracted`: None or another falsy value, a dict, or a truthy
\* value that is not a dict.
ExtractedNone == [t |-> "none", v |-> VoiceRecord("", None, ItemsNone)]
ExtractedDict(d) == [t |-> "dict", v |-> d]
ExtractedOther == [t |-> "other", v |-> VoiceRecord("", None, ItemsNone)]

VoiceOk == [t |-> "ok", error |-> "", message |-> FALSE, http |-> 200,
            bill |-> EmptyDict]

UploadOff ==
    /\ ocr_text = <<>>
    /\ derived = "none"
    /\ extracted = <<>>
    /\ ai = <<>>
    /\ rgs_result = <<>>
    /\ structured = <<>>
    /\ bills_row = <<>>

InitVoice ==
    /\ pc = "voice_received"
    /\ req \in VoiceRequests
    /\ env \in [api_key : BOOLEAN]
    /\ calls = <<>>
    /\ entries = <<>>
    /\ response = Pending
    /\ voice = [extracted |-> ExtractedNone, entry_type |-> "", amount |-> None,
                ai |-> VoiceNotCalled]
    /\ UploadOff
    /\ ValidatorOff
    /\ TextOff
    /\ InsightsOff
    /\ FallbackOff

\* Lines 749-757: login and transcript checks.
VoiceReceive ==
    /\ pc = "voice_received"
    /\ IF req.user = 0
         THEN Respond(ErrorResponse("unauthorized", FALSE, 401))
       ELSE IF req.transcript = <<>>
         THEN Respond(ErrorResponse("transcript_required", FALSE, 400))
       ELSE pc' = "voice_extract" /\ UNCHANGED response
    /\ UNCHANGED <<req, env, calls, entries, voice, uvars, vvars, blob,
                   insight, fb>>

\* Mutant of UseSimple: the deterministic extractor also replaces a record
\* whose amount is zero.
UseSimple_OrZeroAmount(x) ==
    x.t = "none" \/ (x.t = "dict" /\ x.v.amount = Num(0))

\* Line 778: if not extracted
UseSimple(x) == x.t = "none"

\* Lines 763-775: what the AI step leaves in `extracted`; every exception
\* is caught and gives None.
VoiceParsed(outcome) ==
    CASE outcome.kind = "map" -> ExtractedDict(outcome.rec)
      [] outcome.kind = "nonmap" -> ExtractedOther
      [] OTHER -> ExtractedNone

\* Lines 759-779: the AI step, when a key is configured, and the
\* deterministic extractor when `extracted` is falsy after it.
VoiceExtract ==
    /\ pc = "voice_extract"
    /\ \E outcome \in (IF AIConfigured THEN VoiceAIOutcomes ELSE {VoiceNotCalled}) :
         LET after_ai == VoiceParsed(outcome)
             ai_calls == IF AIConfigured THEN AICalls("generate_voice", outcome)
                         ELSE <<>>
         IN  IF UseSimple(after_ai)
               THEN /\ voice' = [voice EXCEPT
                                   !.ai = outcome,
                                   !.extracted = ExtractedDict(
                                       extract_voice_data_simple(req.transcript))]
                    /\ calls' = calls \o ai_calls \o <<"extract_voice_data_simple">>
               ELSE /\ voice' = [voice EXCEPT !.ai = outcome,
                                              !.extracted = after_ai]
                    /\ calls' = calls \o ai_calls
    /\ pc' = "voice_validate"
    /\ UNCHANGED <<req, env, entries, response, uvars, vvars, blob,
                   insight, fb>>

\* Mutant of AmountMissing: `<` in place of `<=`.
AmountMissing_Negative(amount) == amount.v < 0

\* Line 797: if amount <= 0
AmountMissing(amount) == amount.v <= 0

\* Lines 781-798: entry_type and amount are read from `extracted`; a
\* missing or non-positive amount is looked for in the transcript; the
\* request ends with amount_not_found when it is still not positive.
\* extracted.get on a list or string raises AttributeError and `<=` on a
\* string or on None raises TypeError; both end at line 843.
VoiceValidate ==
    /\ pc = "voice_validate"
    /\ IF voice.extracted.t # "dict"
         THEN /\ Respond(ErrorResponse("processing_failed", TRUE, 500))
              /\ UNCHANGED voice
         ELSE LET e == voice.extracted.v.entry_type
                  entry_type == IF e \in {"income", "expense"} THEN e ELSE "income"
                  got == voice.extracted.v.amount
                  amount == IF ~Truthy(got) \/ got.v <= 0
                              THEN FirstNumberOr(req.transcript, got)
                              ELSE got
              IN  IF got.t = "str" \/ amount.t # "num"
                    THEN /\ Respond(ErrorResponse("processing_failed", TRUE, 500))
                         /\ voice' = [voice EXCEPT !.entry_type = entry_type]
                  ELSE IF AmountMissing(amount)
                    THEN /\ Respond(ErrorResponse("amount_not_found", TRUE, 400))
                         /\ voice' = [voice EXCEPT !.entry_type = entry_type,
                                                   !.amount = amount]
                  ELSE /\ voice' = [voice EXCEPT !.entry_type = entry_type,
                                                 !.amount = amount]
                       /\ pc' = "voice_insert"
                       /\ UNCHANGED response
    /\ UNCHANGED <<req, env, calls, entries, uvars, vvars, blob,
                   insight, fb>>

\* Line 812: f"... {price:.2f}" raises ValueError on a string price.
NoteRaises(items) ==
    \E i \in 1..Len(items.v) : items.v[i].price.t = "str"

\* Lines 800-837: the note is formatted from the items and the entry is
\* inserted with source 'voice'.
VoiceInsert ==
    /\ pc = "voice_insert"
    /\ IF NoteRaises(voice.extracted.v.items)
         THEN /\ Respond(ErrorResponse("processing_failed", TRUE, 500))
              /\ UNCHANGED <<entries, calls>>
         ELSE /\ entries' = <<[user_id |-> req.user,
                               entry_type |-> voice.entry_type,
                               amount |-> voice.amount.v, source |-> "voice"]>>
              /\ calls' = Append(calls, "insert_entry")
              /\ Respond(VoiceOk)
    /\ UNCHANGED <<req, env, voice, uvars, vvars, blob,
                   insight, fb>>

NextVoice ==
    \/ VoiceReceive
    \/ VoiceExtract
    \/ VoiceValidate
    \/ VoiceInsert

SpecVoice == InitVoice /\ [][NextVoice]_vars

----------------------------------------------------------------------------
(* _clean_json_text and parse_ai_response.  A response text is a sequence of
   atoms, each standing for a piece of text that the two functions never
   cut: "fence" (three backticks), "json" (the language tag), "ws" (white
   space),
   "{", "}", ",", "kv" (a member "name": number), "key" (a member name and
   its colon, before a nested object), "sopen" (a member name, colon and
   opening quote of a string value), "sclose" (the closing quote) and "text"
   (a word of prose).  String values hold no braces, commas or quotes. *)

MaxMembers == 2

At(s, i) == IF i \in 1..Len(s) THEN s[i] ELSE "eof"

Has(s, a) == \E i \in 1..Len(s) : s[i] = a

RECURSIVE LStrip(_)
LStrip(s) == IF At(s, 1) = "ws" THEN LStrip(Tail(s)) ELSE s

RECURSIVE RStrip(_)
RStrip(s) ==
    IF At(s, Len(s)) = "ws" THEN RStrip(SubSeq(s, 1, Len(s) - 1)) ELSE s

\* str.strip()
Strip(s) == RStrip(LStrip(s))

\* The least element of a non-empty set of positions.
Leftmost(I) == CHOOSE i \in I : \A j \in I : i <= j

\* str.split("```")
RECURSIVE SplitFence(_)
SplitFence(s) ==
    IF ~Has(s, "fence") THEN <<s>>
    ELSE LET i == Leftmost({k \in 1..Len(s) : s[k] = "fence"})
         IN  <<SubSeq(s, 1, i - 1)>> \o SplitFence(SubSeq(s, i + 1, Len(s)))

\* The positions where "```json" starts.
FenceJsonAt(s) == {i \in 1..(Len(s) - 1) : s[i] = "fence" /\ s[i + 1] = "json"}

\* str.split("```json")[1]
AfterFenceJson(s) ==
    LET rest == SubSeq(s, Leftmost(FenceJsonAt(s)) + 2, Len(s))
    IN  IF FenceJsonAt(rest) = {} THEN rest
        ELSE SubSeq(rest, 1, Leftmost(FenceJsonAt(rest)) - 1)

\* json.loads, as a recursive-descent recogniser of objects: ObjEnd(s, i) is
\* the position after the object that starts at i, 0 if there is none.
RECURSIVE ObjEnd(_, _), MembersEnd(_, _), MemberEnd(_, _)
ObjEnd(s, i) ==
    IF At(s, i) # "{" THEN 0
    ELSE IF At(s, i + 1) = "}" THEN i + 2
    ELSE MembersEnd(s, i + 1)

MembersEnd(s, i) ==
    LET j == MemberEnd(s, i)
    IN  IF j = 0 THEN 0
        ELSE IF At(s, j) = "," THEN MembersEnd(s, j + 1)
        ELSE IF At(s, j) = "}" THEN j + 1
        ELSE 0

MemberEnd(s, i) ==
    CASE At(s, i) = "kv" -> i + 1
      [] At(s, i) = "key" -> ObjEnd(s, i + 1)
      [] At(s, i) = "sopen" ->
            LET J == {j \in (i + 1)..Len(s) : s[j] = "sclose"}
            IN  IF J = {} THEN 0 ELSE Leftmost(J) + 1
      [] OTHER -> 0

\* What a normalizer gives: a parsed object (the text without its white
\* space; `stage` and `depth` say where it was found), or an exception.
Unparsed == [t |-> "pending", v |-> <<>>, stage |-> "", depth |-> 0]
ParseError == [t |-> "error", v |-> <<>>, stage |-> "", depth |-> 0]
Parsed(v, stage, depth) ==
    [t |-> "value", v |-> v, stage |-> stage, depth |-> depth]

\* json.loads(s): the whole of s, white space apart, must be one object.
Loads(s) ==
    LET d == SelectSeq(s, LAMBDA a : a # "ws")
    IN  IF d # <<>> /\ ObjEnd(d, 1) = Len(d) + 1
          THEN Parsed(d, "direct", 0) ELSE ParseError

\* Lines 57-61: one turn of the loop of _clean_json_text.
CleanPart(part) ==
    LET p == Strip(part)
    IN  IF At(p, 1) = "json" THEN Strip(Tail(p)) ELSE p

RECURSIVE FirstCleanBrace(_, _)
FirstCleanBrace(parts, default) ==
    IF Len(parts) = 0 THEN default
    ELSE IF At(CleanPart(Head(parts)), 1) = "{" THEN CleanPart(Head(parts))
    ELSE FirstCleanBrace(Tail(parts), default)

_clean_json_text(raw_text) ==
    LET stripped == Strip(raw_text)
    IN  IF Has(stripped, "fence")
          THEN FirstCleanBrace(SplitFence(stripped), stripped)
          ELSE stripped

\* Lines 1240-1247: the first stripped part that starts with "{", else the
\* stripped first part.
RECURSIVE FirstBracePart(_, _)
FirstBracePart(parts, default) ==
    IF Len(parts) = 0 THEN default
    ELSE IF At(Strip(Head(parts)), 1) = "{" THEN Strip(Head(parts))
    ELSE FirstBracePart(Tail(parts), default)

\* Line 1260: re.search(r'\{[^{}]*\}', clean, re.DOTALL): the leftmost "{"
\* that is followed by a "}" with no brace in between.
RegexObject(s) ==
    LET I == {i \in 1..Len(s) :
                /\ s[i] = "{"
                /\ \E j \in (i + 1)..Len(s) :
                     /\ s[j] = "}"
                     /\ \A k \in (i + 1)..(j - 1) : s[k] \notin {"{", "}"}}
    IN  IF I = {} THEN [found |-> FALSE, from |-> 0, to |-> 0]
        ELSE [found |-> TRUE, from |-> Leftmost(I),
              to |-> Leftmost({j \in (Leftmost(I) + 1)..Len(s) : s[j] = "}"})]

\* The number of objects still open before position i.
Depth(s, i) ==
    Cardinality({k \in 1..(i - 1) : s[k] = "{"})
      - Cardinality({k \in 1..(i - 1) : s[k] = "}"})

parse_ai_response(raw) ==
    LET stripped == Strip(raw)
        unfenced == IF FenceJsonAt(stripped) # {}
                      THEN AfterFenceJson(stripped) ELSE stripped
        part == IF Has(unfenced, "fence")
                  THEN FirstBracePart(SplitFence(unfenced),
                                      Strip(Head(SplitFence(unfenced))))
                  ELSE unfenced
        clean == IF At(part, 1) = "json" THEN Strip(Tail(part)) ELSE part
        match == RegexObject(clean)
        inner == IF match.found
                   THEN Loads(SubSeq(clean, match.from, match.to))
                   ELSE ParseError
    IN  IF Loads(stripped).t = "value" THEN Loads(stripped)
        ELSE IF Loads(clean).t = "value"
          THEN Parsed(Loads(clean).v, "stripped", 0)
        ELSE IF inner.t = "value"
          THEN Parsed(inner.v, "regex", Depth(clean, match.from))
        ELSE ParseError

\* The JSON objects of the harness: up to MaxMembers members, each a number
\* member, a string member (of prose, or holding three backticks) or a
\* nested object.
StringBodies == {<<"text">>, <<"fence">>}

Members ==
    {<<"kv">>}
      \cup {<<"sopen">> \o b \o <<"sclose">> : b \in StringBodies}
      \cup {<<"key">> \o o : o \in {<<"{", "}">>, <<"{", "kv", "}">>}}

RECURSIVE Join(_)
Join(ms) ==
    IF Len(ms) = 0 THEN <<>>
    ELSE IF Len(ms) = 1 THEN ms[1]
    ELSE ms[1] \o <<",">> \o Join(Tail(ms))

Objects ==
    {<<"{">> \o Join(ms) \o <<"}">> :
        ms \in UNION {[1..n -> Members] : n \in 0..MaxMembers}}

\* json.dumps(o): ", " between the members.
RECURSIVE Serialize(_)
Serialize(o) ==
    IF Len(o) = 0 THEN <<>>
    ELSE IF Head(o) = "," THEN <<",", "ws">> \o Serialize(Tail(o))
    ELSE <<Head(o)>> \o Serialize(Tail(o))

\* ```json, a newline, the serialization of o, a newline, ```
Fenced(o) == <<"fence", "json", "ws">> \o Serialize(o) \o <<"ws", "fence">>

\* The response texts built around object o: prose before and after, no
\* fence, a bare fence or a tagged one, and the object whole or cut short
\* of its last brace.
TextsOf(o) ==
    {[raw |-> prefix \o open \o body \o close \o suffix,
      obj |-> o, complete |-> (body = Serialize(o)),
      cleaned |-> Unparsed, parsed |-> Unparsed] :
        prefix \in {<<>>, <<"text", "ws">>},
        open \in {<<>>, <<"fence", "ws">>, <<"fence", "json", "ws">>},
        body \in {Serialize(o), SubSeq(Serialize(o), 1, Len(Serialize(o)) - 1)},
        close \in {<<>>, <<"ws", "fence">>},
        suffix \in {<<>>, <<"ws", "text">>}}

InitText ==
    /\ blob \in UNION {TextsOf(o) : o \in Objects}
    /\ PipelineOff
    /\ ValidatorOff
    /\ VoiceOff
    /\ InsightsOff
    /\ FallbackOff

\* json.loads(_clean_json_text(raw)), lines 474-475 and 771-772.
CleanAndLoad ==
    /\ blob.cleaned = Unparsed
    /\ blob' = [blob EXCEPT !.cleaned = Loads(_clean_json_text(blob.raw))]
    /\ UNCHANGED <<vvars, pvars, voice, insight, fb>>

\* parse_ai_response(raw), line 1323.
ParseResponse ==
    /\ blob.parsed = Unparsed
    /\ blob' = [blob EXCEPT !.parsed = parse_ai_response(blob.raw)]
    /\ UNCHANGED <<vvars, pvars, voice, insight, fb>>

NextText ==
    \/ CleanAndLoad
    \/ ParseResponse

SpecText == InitText /\ [][NextText]_vars

----------------------------------------------------------------------------
(* POST /api/insights/ask: api_insights_ask and validate_sql, one request
   from arrival to response.  An SQL statement is the sequence of its
   words; "cond" stands for a condition on columns other than user_id and
   created_at, and user ids are written as their decimal strings. *)

\* The users whose rows the tables hold: the possible requesters and one
\* more.
SqlUsers == 1..(MaxUsers + 1)

\* str.lower() on the words used below.
SqlLower(w) ==
    CASE w = "SELECT" -> "select"
      [] w = "DELETE" -> "delete"
      [] w = "FROM" -> "from"
      [] w \in {"WHERE", "Where"} -> "where"
      [] OTHER -> w

\* sub in w, for the substrings validate_sql looks for.
WordHas(w, sub) == w = sub \/ (w = "created_at" /\ sub = "create")

\* sub in sql_lower
SqlHas(sql, sub) == \E i \in 1..Len(sql) : WordHas(SqlLower(sql[i]), sub)

dangerous == {"drop", "delete", "update", "insert", "alter", "create",
              "truncate", ";"}

\* f"WHERE user_id = {user_id} AND"
FilterPrefix(user_id) == <<"WHERE", "user_id", "=", ToString(user_id), "AND">>

\* str.replace(old, new, 1), for a one-word old.
ReplaceFirst(sql, old, new) ==
    LET I == {i \in 1..Len(sql) : sql[i] = old}
    IN  IF I = {} THEN sql
        ELSE SubSeq(sql, 1, Leftmost(I) - 1) \o new
               \o SubSeq(sql, Leftmost(I) + 1, Len(sql))

\* re.sub(r'(FROM\s+entries)', r'\1 WHERE user_id = {user_id}', sql,
\* flags=re.IGNORECASE)
RECURSIVE AddAfterFromEntries(_, _)
AddAfterFromEntries(sql, user_id) ==
    IF Len(sql) < 2 THEN sql
    ELSE IF SqlLower(sql[1]) = "from" /\ sql[2] = "entries"
      THEN <<sql[1], sql[2], "WHERE", "user_id", "=", ToString(user_id)>>
             \o AddAfterFromEntries(SubSeq(sql, 3, Len(sql)), user_id)
    ELSE <<sql[1]>> \o AddAfterFromEntries(Tail(sql), user_id)

SqlRejected == [ok |-> FALSE, sql |-> <<>>]
SqlAccepted(sql) == [ok |-> TRUE, sql |-> sql]

validate_sql(sql, user_id) ==
    IF SqlLower(At(sql, 1)) # "select" THEN SqlRejected
    ELSE IF \E keyword \in dangerous : SqlHas(sql, keyword) THEN SqlRejected
    ELSE IF ~SqlHas(sql, "user_id")
      THEN IF SqlHas(sql, "where")
             THEN SqlAccepted(ReplaceFirst(
                      ReplaceFirst(sql, "WHERE", FilterPrefix(user_id)),
                      "where", FilterPrefix(user_id)))
             ELSE SqlAccepted(AddAfterFromEntries(sql, user_id))
    ELSE SqlAccepted(sql)

\* The statements the AI engine may generate: SELECT or DELETE, one column,
\* one table, and no WHERE clause or one in any letter case over a
\* condition that may name a user id; with or without a final semicolon.
\* "created_at" stands for date(created_at) = date('now'), the comparison
\* the prompt prescribes (rules 4, 7, 8), "cond" for any other.
SqlConditions ==
    {<<"cond">>, <<"created_at">>, <<"cond", "OR", "cond">>}
      \cup {<<"user_id", "=", ToString(k)>> : k \in SqlUsers}
      \cup {<<"cond", "AND", "user_id", "=", ToString(k)>> : k \in SqlUsers}
      \cup {<<"user_id", "=", ToString(k), "AND", "created_at">> : k \in SqlUsers}

SqlStatements ==
    {<<verb, col, from, table>> \o clause \o semi :
        verb \in {"SELECT", "select", "DELETE"},
        col \in {"amount", "user_id"},
        from \in {"FROM", "from"},
        table \in {"entries", "bills"},
        clause \in {<<>>} \cup {<<w>> \o c : w \in {"WHERE", "where", "Where"},
                                            c \in SqlConditions},
        semi \in {<<>>, <<";">>}}

\* str.split(sep), for a one-word sep.
RECURSIVE SplitOn(_, _)
SplitOn(s, sep) ==
    IF ~Has(s, sep) THEN <<s>>
    ELSE LET i == Leftmost({k \in 1..Len(s) : s[k] = sep})
         IN  <<SubSeq(s, 1, i - 1)>> \o SplitOn(SubSeq(s, i + 1, Len(s)), sep)

\* conn.execute(sql): the users whose rows the statement can return.  With
\* no WHERE clause these are all users; else a row is returned if it meets
\* one of the OR-ed groups of AND-ed conditions, and a row of user k meets
\* "user_id = j" only for j = k (every user has rows that meet the other
\* conditions).
VisibleUsers(sql) ==
    LET W == {i \in 1..Len(sql) : SqlLower(sql[i]) = "where"}
        groups == SplitOn(SubSeq(sql, Leftmost(W) + 1, Len(sql)), "OR")
        Allows(g, k) ==
            \A p \in 1..(Len(g) - 2) :
                (g[p] = "user_id" /\ g[p + 1] = "=") => g[p + 2] = ToString(k)
    IN  IF W = {} THEN SqlUsers
        ELSE {k \in SqlUsers : \E n \in 1..Len(groups) : Allows(groups[n], k)}

InsightsRequests == [user : 0..MaxUsers, question : BOOLEAN]

\* What generate_content and parse_ai_response give: the call raises;
\* parse_ai_response raises ValueError; the parsed JSON is a list; it is an
\* object without "sql" or with an empty one; it is an object with a
\* statement.
InsightsAIOutcomes ==
    {[kind |-> k, sql |-> <<>>] :
        k \in {"gen_error", "unparseable", "nonmap", "no_sql"}}
      \cup {[kind |-> "map", sql |-> q] : q \in SqlStatements}

InsightsOk == [t |-> "ok", error |-> "", message |-> FALSE, http |-> 200,
               bill |-> EmptyDict]

InitInsights ==
    /\ pc = "insights_received"
    /\ req \in InsightsRequests
    /\ env \in [api_key : BOOLEAN]
    /\ calls = <<>>
    /\ entries = <<>>
    /\ response = Pending
    /\ insight = [sql |-> <<>>, final |-> <<>>, executed |-> FALSE]
    /\ UploadOff
    /\ ValidatorOff
    /\ VoiceOff
    /\ TextOff
    /\ FallbackOff

\* Lines 1298-1314: login, question and API key checks.
InsightsReceive ==
    /\ pc = "insights_received"
    /\ IF req.user = 0
         THEN Respond(ErrorResponse("unauthorized", FALSE, 401))
       ELSE IF ~req.question
         THEN Respond(ErrorResponse("question_required", FALSE, 400))
       ELSE IF ~AIConfigured
         THEN Respond(ErrorResponse("gemini_not_configured", TRUE, 400))
       ELSE pc' = "insights_generate" /\ UNCHANGED response
    /\ UNCHANGED <<req, env, calls, entries, insight, uvars, vvars, voice, blob, fb>>

\* Lines 1316-1330: the AI engine writes the statement; ValueError ends at
\* line 1381, any other exception at line 1386.
InsightsGenerate ==
    /\ pc = "insights_generate"
    /\ \E outcome \in InsightsAIOutcomes :
        /\ calls' = calls \o (IF outcome.kind = "gen_error"
                                THEN <<"generate_insights">>
                                ELSE <<"generate_insights", "parse_ai_response">>)
        /\ CASE outcome.kind \in {"gen_error", "nonmap"} ->
                  /\ Respond(ErrorResponse("query_failed", TRUE, 500))
                  /\ UNCHANGED insight
             [] outcome.kind = "unparseable" ->
                  /\ Respond(ErrorResponse("validation_failed", TRUE, 400))
                  /\ UNCHANGED insight
             [] outcome.kind = "no_sql" ->
                  /\ Respond(ErrorResponse("no_sql_generated", TRUE, 400))
                  /\ UNCHANGED insight
             [] OTHER ->
                  /\ insight' = [insight EXCEPT !.sql = outcome.sql]
                  /\ pc' = "insights_validate"
                  /\ UNCHANGED response
    /\ UNCHANGED <<req, env, entries, uvars, vvars, voice, blob, fb>>

\* Line 1333: sql = validate_sql(sql, user_id)
InsightsValidate ==
    /\ pc = "insights_validate"
    /\ calls' = Append(calls, "validate_sql")
    /\ LET checked == validate_sql(insight.sql, req.user)
       IN  IF checked.ok
             THEN /\ insight' = [insight EXCEPT !.final = checked.sql]
                  /\ pc' = "insights_execute"
                  /\ UNCHANGED response
             ELSE /\ Respond(ErrorResponse("validation_failed", TRUE, 400))
                  /\ UNCHANGED insight
    /\ UNCHANGED <<req, env, entries, uvars, vvars, voice, blob, fb>>

\* Lines 1335-1378: the statement is executed and its rows are returned; an
\* sqlite3 error ends at line 1386.
InsightsExecute ==
    /\ pc = "insights_execute"
    /\ calls' = Append(calls, "execute")
    /\ \/ /\ insight' = [insight EXCEPT !.executed = TRUE]
          /\ Respond(InsightsOk)
       \/ /\ Respond(ErrorResponse("query_failed", TRUE, 500))
          /\ UNCHANGED insight
    /\ UNCHANGED <<req, env, entries, uvars, vvars, voice, blob, fb>>

NextInsights ==
    \/ InsightsReceive
    \/ InsightsGenerate
    \/ InsightsValidate
    \/ InsightsExecute

SpecInsights == InitInsights /\ [][NextInsights]_vars

----------------------------------------------------------------------------
(* SpecFallback: _fallback_extract_from_ocr applied to an OCR text.  A text
   is a sequence of lines; a line is a label followed by a number token
   ("Grand Total: 500", "Rs. 500", "CGST: 500", "Sub Total: 500"), a number
   token alone, a business name, "Date: 01/02/2024" or
   "GSTIN: 27ABCDE1234F1Z5".  The operators below give what the function's
   regular expressions capture in such a text. *)

MaxLines == 2

AmountTokens == {"0", "5", "42", "500", ","}

\* float(match.replace(",", "")): the number, or Str when float() raises
\* ValueError (the lone comma).
TokenCapture(n) ==
    CASE n = "0" -> Num(0)
      [] n = "5" -> Num(5)
      [] n = "42" -> Num(42)
      [] n = "500" -> Num(500)
      [] OTHER -> Str

OcrLine(k, n) == [k |-> k, n |-> n]

OcrLines ==
    {OcrLine(k, n) : k \in {"total", "rs", "cgst", "subtotal", "plain"},
                     n \in AmountTokens}
        \cup {OcrLine(k, "") : k \in {"name", "date", "gstin"}}

OcrLineTexts == UNION {[1..k -> OcrLines] : k \in 0..MaxLines}

\* What the amount patterns (lines 235-248) capture in one line: the token
\* after "Grand Total", "Rs." and "Total" (also inside "Sub Total"); any run
\* of three or more digits (the last-resort pattern), which includes the
\* year of a date.
LineAmounts(line) ==
    CASE line.k \in {"total", "rs", "subtotal"} -> {TokenCapture(line.n)}
      [] line.k \in {"cgst", "plain"} ->
            IF line.n = "500" THEN {Num(500)} ELSE {}
      [] line.k = "date" -> {Num(2024)}
      [] OTHER -> {}

AmountMatches(text) == UNION {LineAmounts(text[i]) : i \in DOMAIN text}

\* Index of the first line of one of the kinds K, 0 when there is none.
FirstLine(text, K) ==
    LET I == {i \in DOMAIN text : text[i].k \in K}
    IN  IF I = {} THEN 0 ELSE CHOOSE i \in I : \A j \in I : i <= j

\* The class [:\s@%\d]* after "CGST" is greedy and contains digits and line
\* breaks: it runs over the number of the CGST line and over every following
\* line that is a number alone.
RECURSIVE RunEnd(_, _)
RunEnd(text, j) ==
    IF j < Len(text) /\ text[j + 1].k = "plain" /\ text[j + 1].n # ","
    THEN RunEnd(text, j + 1)
    ELSE j

\* What is left for the group ([\d,]+\.?\d*) when the class has to give back
\* one character: the last digit of the run.
LastDigit(n) ==
    CASE n = "5" -> Num(5)
      [] n = "42" -> Num(2)
      [] OTHER -> Num(0)

\* Line 301: the capture of the CGST pattern (None when there is no CGST
\* line).  After the run the group takes a comma or the number of a following
\* "Rs." line if there is one, the last digit of the run otherwise.
CgstCapture(text) ==
    LET i == FirstLine(text, {"cgst"})
    IN  IF i = 0 THEN None
        ELSE IF text[i].n = "," THEN Str
        ELSE LET j == RunEnd(text, i)
                 next == IF j < Len(text) THEN text[j + 1] ELSE OcrLine("name", "")
             IN  IF next.k = "plain" THEN Str
                 ELSE IF next.k = "rs" THEN TokenCapture(next.n)
                 ELSE LastDigit(text[j].n)

\* Line 324: the capture of the subtotal pattern.
SubtotalCapture(text) ==
    LET i == FirstLine(text, {"subtotal"})
    IN  IF i = 0 THEN None ELSE TokenCapture(text[i].n)

\* Lines 333-347: the first line that names no label and is not made of
\* digits only; "Rs. 500" is such a line.
VendorFound(text) == FirstLine(text, {"name", "rs"}) # 0

Scan(text) ==
    [amount_matches |-> AmountMatches(text),
     gstin |-> FirstLine(text, {"gstin"}) # 0,
     date |-> FirstLine(text, {"date"}) # 0,
     vendor |-> VendorFound(text),
     cgst |-> CgstCapture(text), sgst |-> None, igst |-> None,
     subtotal |-> SubtotalCapture(text)]

InitFallback ==
    /\ fb \in [text : OcrLineTexts, done : {FALSE}, result : {EmptyDict}]
    /\ PipelineOff
    /\ ValidatorOff
    /\ VoiceOff
    /\ TextOff
    /\ InsightsOff

\* structured = _fallback_extract_from_ocr(ocr_text), lines 459 and 1052.
FallbackCall ==
    /\ ~fb.done
    /\ fb' = [fb EXCEPT !.done = TRUE,
                        !.result = _fallback_extract_from_ocr(Scan(fb.text))]
    /\ UNCHANGED <<vvars, pvars, voice, blob, insight>>

NextFallback == FallbackCall

SpecFallback == InitFallback /\ [][NextFallback]_vars

----------------------------------------------------------------------------
(* Claims about validate_bill_data, checked under SpecValidator *)

\* C1: for every input record (any combination of present and absent
\* total_amount, gst_amount, subtotal, gst_percentage and items, and any
\* numeric starting confidence, also outside [0,1]) the record returned by
\* validate_bill_data carries a numeric confidence in [0.0, 1.0].
C1_ConfidenceBounds ==
    \A i \in 1..Len(vHist) :
        /\ IsNum(vHist[i].confidence)
        /\ vHist[i].confidence.v >= 0
        /\ vHist[i].confidence.v <= 100

\* C1 witness: a record with starting confidence 1.1 that no rule penalises
\* has been validated and came out with confidence 1.0.
C1_Witness ==
    /\ Len(vHist) = 1
    /\ vOrig.confidence = Num(110)
    /\ vHist[1].confidence = Num(100)

\* C2 as claimed: validating the validator's own output changes neither the
\* confidence nor the nulled fields.
C2_Idempotent ==
    Len(vHist) >= 2 =>
        /\ vHist[2].confidence = vHist[1].confidence
        /\ vHist[2].gst_amount = vHist[1].gst_amount
        /\ vHist[2].gst_percentage = vHist[1].gst_percentage

\* The penalties that a record already validated once is charged again:
\* rules 2 and 3 cannot fire on it, rules 1, 4 and 5 still can.
RepeatPenalty(bill) ==
    (IF IsNum(bill.total_amount) /\ bill.total_amount.v < 10 THEN 20 ELSE 0)
  + (IF /\ IsNum(bill.subtotal) /\ IsNum(bill.gst_amount) /\ IsNum(bill.total_amount)
        /\ 10 * Abs(bill.subtotal.v + bill.gst_amount.v - bill.total_amount.v)
              > bill.total_amount.v
     THEN 15 ELSE 0)
  + (IF bill.items = ItemsNone \/ bill.items = ItemsList(<<>>) THEN 10 ELSE 0)

\* C2 amended: re-validation nulls no further field (gst_amount and
\* gst_percentage of the second result are those of the first), but the
\* confidence is not kept: the second result's confidence is the first one's
\* minus 0.2 if total < 10, minus 0.15 if subtotal + gst still misses the
\* total by more than 10%, minus 0.1 if items is empty, clamped to [0,1].
C2_RevalidationChargesAgain ==
    \A i \in 1..(Len(vHist) - 1) :
        /\ vHist[i + 1].gst_amount = vHist[i].gst_amount
        /\ vHist[i + 1].gst_percentage = vHist[i].gst_percentage
        /\ vHist[i + 1].confidence.v
              = Max(0, Min(100, vHist[i].confidence.v - RepeatPenalty(vHist[i])))

\* C2 witness: a record whose gst_amount was nulled by rule 2, validated
\* twice, lost confidence again on the second pass.
C2_Witness ==
    /\ Len(vHist) = 2
    /\ IsNum(vOrig.gst_amount) /\ vHist[1].gst_amount = None
    /\ vHist[2].gst_amount = None
    /\ vHist[2].confidence.v < vHist[1].confidence.v

\* The record {total_amount: 100, gst_amount: 150} with no other key.
C3_Input == Bill(Num(100), Num(150), None, None, ItemsNone, None)

\* C3 as claimed: validating {total_amount: 100, gst_amount: 150} nulls
\* gst_amount and leaves confidence at 0.35, i.e. 0.15 below the base 0.5.
C3_GstExceedsTotal_Claimed ==
    (vOrig = C3_Input /\ Len(vHist) >= 1) =>
        /\ vHist[1].gst_amount = None
        /\ vHist[1].confidence = Num(35)

\* C3 amended: validating {total_amount: 100, gst_amount: 150} nulls
\* gst_amount and leaves confidence at 0.25: 0.15 below the base 0.5 for
\* rule 2 and another 0.1 for rule 5, because the record has no items.
C3_GstExceedsTotal ==
    (vOrig = C3_Input /\ Len(vHist) >= 1) =>
        /\ vHist[1].gst_amount = None
        /\ vHist[1].total_amount = Num(100)
        /\ vHist[1].confidence = Num(25)

\* C3 witness: that record has been validated once.
C3_Witness ==
    vOrig = C3_Input /\ Len(vHist) = 1 /\ vHist[1].gst_amount = None

----------------------------------------------------------------------------
(* Claims about the bill upload, checked under Spec *)

CallIndexes(name) == {i \in 1..Len(calls) : calls[i] = name}
Called(name) == CallIndexes(name) # {}

\* C4: without AI credentials an upload goes from OCR straight to the
\* Text-Pattern Extractor: the request makes no AI generation call, no
\* verification call and no response normalisation, and the record that
\* run_gemini_structured returns and the orchestrator keeps is
\* _fallback_extract_from_ocr of the OCR text.
C4_NoCredentialsFallbackOnly ==
    ~env.api_key =>
        /\ ~Called("generate_first")
        /\ ~Called("generate_verify")
        /\ ~Called("clean_json")
        /\ \A i \in CallIndexes("ocr") : i < Len(calls) => calls[i + 1] = "fallback"
        /\ pc = "rgs_returned" =>
              rgs_result = ResultDict(_fallback_extract_from_ocr(ocr_text))
        /\ pc = "extracted" => structured = _fallback_extract_from_ocr(ocr_text)

\* C4 witness: an upload without credentials was answered, with the total
\* 500 of the text "Grand Total: 500 ... 42".
C4_Witness ==
    /\ ~env.api_key
    /\ pc = "responded" /\ response.t = "ok"
    /\ ocr_text.amount_matches = {Num(500), Num(42)}
    /\ response.bill.total_amount = Num(500)

FirstPassFailed == ai.first.kind \in {"gen_error", "unparseable", "nonmap"}

\* C5: if the first-pass AI extraction throws (generation error, unparseable
\* response) or parses to a non-mapping value, the request does not fail:
\* the record the orchestrator goes on with is the Text-Pattern Extractor's
\* output for the OCR text, the request is never stuck, and it ends with an
\* ok response and the bills row at 'done'.
C5_FirstPassFailureRecovered ==
    FirstPassFailed =>
        /\ response.t # "error"
        /\ pc = "extracted" => structured = _fallback_extract_from_ocr(ocr_text)
        /\ pc = "responded" => (response.t = "ok" /\ bills_row.status = "done")
        /\ pc # "responded" => ENABLED Next

\* C5 witness: an upload whose first pass parsed to a non-mapping value was
\* answered ok.
C5_Witness ==
    /\ ai.first.kind = "nonmap"
    /\ pc = "responded" /\ response.t = "ok" /\ bills_row.status = "done"

\* C6: when AI extraction succeeded (run_gemini_structured returned the
\* validated AI record), the orchestrator discards that record for the
\* Text-Pattern Extractor's exactly when it has no usable total
\* (total_amount absent or 0) and no items; a record with a usable total or
\* at least one item is kept and the extractor is not used.
C6_LowValueDiscarded ==
    (pc = "extracted" /\ ai.first.kind = "map" /\ rgs_result.t = "dict") =>
        LET r == rgs_result.v
            noTotal == r.total_amount = None \/ r.total_amount = Num(0)
            noItems == r.items = ItemsNone \/ r.items = ItemsList(<<>>)
        IN  IF noTotal /\ noItems
              THEN /\ structured = _fallback_extract_from_ocr(ocr_text)
                   /\ calls[Len(calls)] = "fallback"
              ELSE /\ structured = r
                   /\ ~Called("fallback")

\* C6 witness: a validated AI record without total and items was replaced by
\* the extractor's record with total 500.
C6_Witness ==
    /\ pc = "extracted" /\ ai.first.kind = "map" /\ rgs_result.t = "dict"
    /\ rgs_result.v.total_amount = None /\ rgs_result.v.items = ItemsList(<<>>)
    /\ structured.total_amount = Num(500)
    /\ structured.confidence = Num(55)

\* C7: a verification call is made only after a first pass that succeeded
\* and produced a mapping, never after the Text-Pattern Extractor ran, and
\* at most once per request.
C7_VerificationOnlyAfterFirstPass ==
    /\ Cardinality(CallIndexes("generate_verify")) <= 1
    /\ \A j \in CallIndexes("generate_verify") :
        /\ ai.first.kind = "map"
        /\ \E i \in CallIndexes("generate_first") : i < j
        /\ \A i \in CallIndexes("fallback") : j < i
    /\ Called("generate_verify") => env.api_key

\* C7 witness: a request made its verification call and was answered.
C7_Witness ==
    /\ Called("generate_verify")
    /\ ai.verify.kind = "map"
    /\ pc = "responded"

\* C8: if the verification pass fails (generation error, unparseable
\* response, non-mapping value) the record passed to the validator is
\* exactly the first-pass extraction and the request gets no error from it
\* (the errors such a request can still end with are the TypeError of line
\* 1075 on a string tax amount and the binding error of the INSERT on an
\* array); only a parsed mapping replaces the first-pass extraction.
C8_VerificationFailureKeepsFirstPass ==
    /\ pc = "validate" =>
          extracted = (IF ai.verify.kind = "map" THEN ai.verify.rec ELSE ai.first.rec)
    /\ (ai.verify.kind \in {"gen_error", "unparseable", "nonmap"}
          /\ response.t = "error") =>
                (PersistRaises(structured) \/ InsertRaises(structured))

\* C8 witness: verification returned a non-mapping value and the validator
\* is about to get the first-pass record with total 250.
C8_Witness ==
    /\ pc = "validate"
    /\ ai.verify.kind = "nonmap"
    /\ ai.first.rec.total_amount = Num(250)
    /\ extracted = ai.first.rec

\* C9 as claimed: every record handed to persistence went through the
\* Rule-Based Validator after its extraction (AI or Text-Pattern Extractor)
\* and before backfill and the 'done' update.
C9_PersistedRecordValidated ==
    \A j \in CallIndexes("update_bill") :
        \E i \in CallIndexes("validate") :
            /\ i < j
            /\ \A k \in (i + 1)..(j - 1) :
                  calls[k] \notin {"fallback", "generate_first", "generate_verify"}

\* C10: the backfill step gives a record with empty items and a known
\* (non-zero) total exactly one item, "Inferred item", quantity 1, rate =
\* amount = total_amount; it leaves the items of any other record (items
\* present, or no total) as they are, and changes no other field.
C10_BackfillStep ==
    [][(pc = "extracted" /\ pc' = "backfilled") =>
        LET empty == structured.items = ItemsNone \/ structured.items = ItemsList(<<>>)
            known == IsNum(structured.total_amount) /\ structured.total_amount.v # 0
        IN  /\ structured' = [structured EXCEPT !.items = structured'.items]
            /\ (empty /\ known) =>
                  structured'.items = ItemsList(<<
                      [description |-> "Inferred item", hsn_code |-> None,
                       quantity |-> Num(1), rate |-> structured.total_amount,
                       amount |-> structured.total_amount]>>)
            /\ ~(empty /\ known) => structured'.items = structured.items
      ]_vars

\* C10 witness: a validated record with items = [] and total_amount = 250
\* has exactly one item after backfill, with amount 250.
C10_Witness ==
    /\ pc = "backfilled"
    /\ rgs_result.t = "dict"
    /\ rgs_result.v.items = ItemsList(<<>>)
    /\ rgs_result.v.total_amount = Num(250)
    /\ Len(structured.items.v) = 1
    /\ structured.items.v[1].description = "Inferred item"
    /\ structured.items.v[1].amount = Num(250)

\* C11: an upload that answers ok has inserted exactly one entry when the
\* final total_amount is positive, with the uploading user's id, type
\* 'expense', source 'bill_upload' and the total as amount; when the final
\* total_amount is absent, zero or negative it has inserted none.  No upload
\* ever inserts more than one entry.
C11_LedgerEntryIffPositiveTotal ==
    /\ Len(entries) <= 1
    /\ (pc = "responded" /\ response.t = "ok") =>
          LET total == response.bill.total_amount
          IN  IF IsNum(total) /\ total.v > 0
                THEN entries = <<[user_id |-> req.user, entry_type |-> "expense",
                                  amount |-> total.v, source |-> "bill_upload"]>>
                ELSE entries = <<>>

\* C11 witness: user 1 uploaded a bill whose final total is 250 and the
\* entry is in the ledger.
C11_Witness ==
    /\ response.t = "ok"
    /\ response.bill.total_amount = Num(250)
    /\ req.user = 1
    /\ entries = <<[user_id |-> 1, entry_type |-> "expense", amount |-> 250,
                    source |-> "bill_upload"]>>
    /\ Called("insert_entry")

C16_DisallowedName ==
    ~req.filename.dot \/ Lower(req.filename.ext) \notin ALLOWED_EXTENSIONS

\* C16: an upload without a logged-in user, or whose filename has no
\* extension or a disallowed one, is answered with an error by the first
\* step: nothing was saved, no bills row and no entry exist, and no stage
\* (PDF conversion, OCR, preprocessing, AI, pattern extraction) was called.
C16_RejectedBeforeAnyStage ==
    (pc # "received" /\ (req.user = 0 \/ C16_DisallowedName)) =>
        /\ pc = "responded"
        /\ response.t = "error"
        /\ calls = <<>>
        /\ bills_row = NoRow
        /\ entries = <<>>

\* C16 witness: a logged-in user's upload of a .exe file was rejected as
\* invalid_file_type with nothing saved or called.
C16_Witness ==
    /\ req.user = 1
    /\ req.has_file
    /\ req.filename = Filename(FALSE, TRUE, "exe")
    /\ response.error = "invalid_file_type"
    /\ calls = <<>>
    /\ bills_row = NoRow

----------------------------------------------------------------------------
(* Claims about the voice request, checked under SpecVoice *)

\* The AI step gave no record: no key, an exception in the call or in the
\* parsing, or a falsy parsed value.
VoiceAIGaveNothing ==
    voice.ai.kind \in {"not_called", "gen_error", "unparseable", "falsy"}

\* C12: a voice request of a logged-in user whose transcript holds no
\* positive number and for which the AI step gave no record ends with
\* amount_not_found and no entry; and no voice request ever inserts an entry
\* whose amount is not positive.
C12_NoAmountNoEntry ==
    /\ \A i \in 1..Len(entries) : entries[i].amount > 0
    /\ (/\ pc = "responded"
        /\ req.user # 0
        /\ req.transcript # <<>>
        /\ VoiceAIGaveNothing
        /\ LargestNumber(req.transcript) = 0) =>
          /\ response.t = "error"
          /\ response.error = "amount_not_found"
          /\ entries = <<>>

\* C12 witness: "chawal becha" (no number) without an API key went through
\* the deterministic extractor and ended with amount_not_found.
C12_Witness ==
    /\ req.transcript = <<"chawal", "becha">>
    /\ ~env.api_key
    /\ Called("extract_voice_data_simple")
    /\ response.error = "amount_not_found"
    /\ entries = <<>>

\* The request is past lines 759-779.
VoiceExtracted ==
    \/ pc \in {"voice_validate", "voice_insert"}
    \/ voice.ai.kind # "not_called"
    \/ Called("extract_voice_data_simple")

----------------------------------------------------------------------------
(* Claims about both endpoints, checked under Spec or SpecVoice *)

\* The request at hand is a voice request (it has a transcript), not an
\* upload.
IsVoiceRequest == "transcript" \in DOMAIN req

\* An answer of the bill AI that parsed as JSON but is not what the prompt
\* asks for: not an object, or an object with a string as cgst_amount.
BillAnswerMalformed(outcome) ==
    \/ outcome.kind = "nonmap"
    \/ outcome.kind = "map" /\ outcome.rec.cgst_amount.t = "str"

\* The same for the voice AI: a list or a string.
VoiceAnswerMalformed(outcome) == outcome.kind = "nonmap"

C20_FailureCarriesMessage ==
    response.t = "error" => (response.error # "" /\ response.message)

----------------------------------------------------------------------------
(* Claims about the response normalizers, checked under SpecText *)

\* C18 as claimed: for a JSON object o, the text made of ```json, a newline,
\* the serialization of o, a newline and ``` is normalized to exactly o, by
\* _clean_json_text followed by json.loads and by parse_ai_response alike.
C18_FencedObjectRoundTrip ==
    blob.raw = Fenced(blob.obj) =>
        /\ blob.cleaned # Unparsed =>
              (blob.cleaned.t = "value" /\ blob.cleaned.v = blob.obj)
        /\ blob.parsed # Unparsed =>
              (blob.parsed.t = "value" /\ blob.parsed.v = blob.obj)

\* C19 as claimed: parse_ai_response returns the complete top-level object
\* of the response text or raises; what it returns is never an object
\* nested in a larger, possibly broken, one.
C19_TopLevelObjectOrError ==
    blob.parsed.t = "value" =>
        /\ blob.complete
        /\ blob.parsed.v = blob.obj
        /\ blob.parsed.depth = 0

----------------------------------------------------------------------------
(* Claims about the insights request, checked under SpecInsights *)

\* C17 as claimed: every AI-generated statement that is executed can return
\* rows of the requesting user only; in particular a statement that names
\* another user's id, and a statement with no WHERE and no "FROM entries",
\* are not executed unfiltered.
C17_ExecutedSqlRestrictedToUser ==
    insight.executed => VisibleUsers(insight.final) \subseteq {req.user}

----------------------------------------------------------------------------
(* Further claims about validate_bill_data, checked under SpecValidator *)

\* The record the i-th call received: the caller's original dict for the
\* first call, the previous call's result afterwards.
ValidatorInput(i) == IF i = 1 THEN vOrig ELSE vHist[i - 1]

\* 1 when the condition holds, 0 otherwise.
Ind(b) == IF b THEN 1 ELSE 0

\* The reference confidence of C21, in hundredths, with every rule read off
\* the input record r.
ReferenceConfidence(r) ==
    LET base == IF r.confidence.t = "none" THEN 50 ELSE r.confidence.v
        total == r.total_amount
        gst == r.gst_amount
        sub == r.subtotal
        pct == r.gst_percentage
        raw == base
             - 20 * Ind(total.t = "num" /\ total.v < 10)
             - 15 * Ind(gst.t = "num" /\ total.t = "num" /\ gst.v > total.v)
             - 10 * Ind(pct.t = "num" /\ (pct.v < 0 \/ pct.v > 28))
             - 15 * Ind(sub.t = "num" /\ gst.t = "num" /\ total.t = "num"
                        /\ 10 * Abs(sub.v + gst.v - total.v) > total.v)
             - 10 * Ind(r.items.t = "none" \/ Len(r.items.v) = 0)
    IN  IF raw < 0 THEN 0 ELSE IF raw > 100 THEN 100 ELSE raw

\* C21: the confidence returned by every validator call equals
\* clamp(base - 0.2*[rule 1] - 0.15*[rule 2] - 0.1*[rule 3] - 0.15*[rule 4]
\* - 0.1*[rule 5], 0, 1) with every rule evaluated on the values of the
\* record the call received (rule 4 with the gst_amount rule 2 nulls) and
\* base 0.5 when the record has no confidence.
C21_ConfidenceIsReference ==
    \A i \in 1..Len(vHist) :
        vHist[i].confidence = Num(ReferenceConfidence(ValidatorInput(i)))

\* C21 witness: a validated record on which rule 2 and rule 4 both fired
\* (gst 150 > total 100, subtotal 82) and whose penalties stacked to 0.4.
C21_Witness ==
    /\ Len(vHist) = 1
    /\ vOrig.total_amount = Num(100) /\ vOrig.gst_amount = Num(150)
    /\ vOrig.subtotal = Num(82) /\ vOrig.items = ItemsNone
    /\ vOrig.gst_percentage = None /\ vOrig.confidence = None
    /\ vHist[1].gst_amount = None
    /\ vHist[1].confidence = Num(10)


\* gst_amount as the sum of the record's tax components: absent when all
\* three are absent.
ComponentGst(r) ==
    LET parts == {r.cgst_amount, r.sgst_amount, r.igst_amount}
    IN  IF \A x \in parts : x.t # "num" THEN [t |-> "none", v |-> 0]
        ELSE [t |-> "num",
              v |-> (IF r.cgst_amount.t = "num" THEN r.cgst_amount.v ELSE 0)
                  + (IF r.sgst_amount.t = "num" THEN r.sgst_amount.v ELSE 0)
                  + (IF r.igst_amount.t = "num" THEN r.igst_amount.v ELSE 0)]

\* C22: for a record without a gst_amount key of its own, rules 2 and 4 use
\* the sum of cgst_amount, sgst_amount and igst_amount as gst_amount: the
\* returned confidence is the reference value computed with that sum, so
\* {cgst_amount: 150, total_amount: 100} is charged 0.15 by rule 2.
C22_RulesUseComponentSum ==
    \A i \in 1..Len(vHist) :
        LET r == ValidatorInput(i)
        IN  r.gst_amount.t = "none" =>
                vHist[i].confidence =
                    Num(ReferenceConfidence(
                            [r EXCEPT !.gst_amount = ComponentGst(r)]))


\* The GST percentage fields of a record.
GstPercentFields == {"cgst_rate", "sgst_rate", "igst_rate", "gst_percentage"}

OutOfBand(x) == x.t = "num" /\ (x.v < 0 \/ x.v > 28)

\* C23: every GST percentage field (cgst_rate, sgst_rate, igst_rate,
\* gst_percentage) that is present and outside [0, 28] is absent in the
\* validator's result and costs 0.1 of confidence; a field within [0, 28] is
\* returned unchanged.
C23_EveryPercentFieldChecked ==
    \A i \in 1..Len(vHist) :
        LET r == ValidatorInput(i)
            base == IF r.confidence.t = "none" THEN 50 ELSE r.confidence.v
        IN  \A f \in GstPercentFields :
                IF OutOfBand(r[f])
                THEN /\ vHist[i][f].t = "none"
                     /\ vHist[i].confidence.v <= Max(0, Min(100, base - 10))
                ELSE vHist[i][f] = r[f]


\* C24: validate_bill_data is pure: after it returned, the dict the caller
\* passed still has the value it had before the call (same gst_amount, same
\* gst_percentage, same confidence or absence of confidence).
C24_InputRecordUnchanged ==
    Len(vHist) >= 1 => vBill = vOrig


----------------------------------------------------------------------------
(* Further claims about the bill upload, checked under Spec *)

\* C25: the stages run in the order of the state machine, normalization
\* before recognition: whenever OCR has run in an upload,
\* preprocess_bill_image ran earlier in the same upload.
C25_NormalizedBeforeOcr ==
    \A i \in CallIndexes("ocr") :
        \E j \in CallIndexes("preprocess") : j < i


----------------------------------------------------------------------------
(* Claims about _fallback_extract_from_ocr, checked under SpecFallback *)

\* The numbers among the captures of the amount patterns that are above 0.
PositiveMatches(text) ==
    {m.v : m \in {x \in AmountMatches(text) : x.t = "num" /\ x.v > 0}}

\* "Grand Total: 500" and an unrelated 42.
C26_Example == <<OcrLine("total", "500"), OcrLine("plain", "42")>>

\* C26: the total_amount returned by the Text-Pattern Extractor is the
\* largest of the positive, parseable captures of all amount patterns over
\* the whole text, and absent when there is none (captures of 0 and captures
\* float() rejects are dropped); for "Grand Total: 500" with an unrelated 42
\* it is 500.
C26_TotalIsLargestPositiveMatch ==
    fb.done =>
        LET pos == PositiveMatches(fb.text)
            total == fb.result.total_amount
        IN  /\ pos = {} => total.t = "none"
            /\ pos # {} => /\ total.t = "num"
                           /\ total.v \in pos
                           /\ \A y \in pos : y <= total.v
            /\ fb.text = C26_Example => total = Num(500)

\* C26 witness: the extractor has run on "Grand Total: 500" followed by 42
\* and returned 500.
C26_Witness ==
    /\ fb.done
    /\ fb.text = C26_Example
    /\ fb.result.total_amount = Num(500)

\* The CGST pattern matched and its capture is a number (0 included).
GstComponentMatched(text) == CgstCapture(text).t = "num"

\* C27: the fallback confidence is min(1.0, 0.3 + 0.25*[an amount above 10
\* was found] + 0.15*[GSTIN found] + 0.1*[date found] + 0.1*[vendor name
\* found] + 0.1*[a CGST/SGST/IGST amount was matched, a matched 0 included]).
C27_FallbackConfidenceFormula ==
    fb.done =>
        LET pos == PositiveMatches(fb.text)
            raw == 30
                 + 25 * Ind(\E y \in pos : y > 10)
                 + 15 * Ind(\E i \in DOMAIN fb.text : fb.text[i].k = "gstin")
                 + 10 * Ind(\E i \in DOMAIN fb.text : fb.text[i].k = "date")
                 + 10 * Ind(VendorFound(fb.text))
                 + 10 * Ind(GstComponentMatched(fb.text))
        IN  fb.result.confidence = Num(IF raw > 100 THEN 100 ELSE raw)


\* The fields of a BillExtraction record (the extraction schema).
BillExtractionFields ==
    {"vendor_name", "vendor_gstin", "bill_number", "bill_date", "items",
     "subtotal", "cgst_rate", "cgst_amount", "sgst_rate", "sgst_amount",
     "igst_rate", "igst_amount", "total_amount"}

NumericFields ==
    {"subtotal", "cgst_rate", "cgst_amount", "sgst_rate", "sgst_amount",
     "igst_rate", "igst_amount", "total_amount"}

\* C28: for every OCR text, the empty one and one whose captures float()
\* rejects included, _fallback_extract_from_ocr returns (it never raises) a
\* record with every BillExtraction field, each numeric field a number or
\* absent, items = [] and a numeric confidence.
C28_FallbackTotal ==
    /\ ~fb.done => ENABLED FallbackCall
    /\ fb.done =>
          /\ BillExtractionFields \subseteq DOMAIN fb.result
          /\ \A f \in NumericFields : fb.result[f].t \in {"none", "num"}
          /\ fb.result.items = ItemsList(<<>>)
          /\ fb.result.confidence.t = "num"

\* C28 witness: the extractor has run on "Sub Total: ,", whose captures do
\* not parse, and returned a record without amounts.
C28_Witness ==
    /\ fb.done
    /\ fb.text = <<OcrLine("subtotal", ",")>>
    /\ fb.result.subtotal = None
    /\ fb.result.total_amount = None
    /\ fb.result.items = ItemsList(<<>>)
    /\ fb.result.confidence = Num(30)


\* A statement as the insights prompt prescribes it for user u: a SELECT
\* over entries filtered by user_id = u (rule 6) and by
\* date(created_at) = date('now') (rules 4 and 8).
FollowsPrompt(sql, u) ==
    sql = <<"SELECT", "amount", "FROM", "entries", "WHERE", "user_id", "=",
            ToString(u), "AND", "created_at">>

\* The statement keywords validate_sql is to keep out, and the separator.
StatementKeywords ==
    {"drop", "delete", "update", "insert", "alter", "create", "truncate", ";"}

\* C29: a generated SELECT that follows the prompt's rules is accepted by
\* validate_sql and executed, and validate_sql rejects a statement only if
\* it does not start with SELECT or has one of the statement keywords drop,
\* delete, update, insert, alter, create, truncate, or a ';', in it.
C29_PromptConformingSqlAccepted ==
    Called("validate_sql") =>
        /\ FollowsPrompt(insight.sql, req.user) =>
              /\ response.error # "validation_failed"
              /\ pc = "responded" => Called("execute")
        /\ response.error = "validation_failed" =>
              \/ SqlLower(insight.sql[1]) # "select"
              \/ \E i \in 1..Len(insight.sql) :
                    SqlLower(insight.sql[i]) \in StatementKeywords


----------------------------------------------------------------------------
(* The bills row of an upload, checked under Spec *)

=============================================================================
